---------------------------- MODULE Spec2Model ----------------------------
(***************************************************************************)
(* The storage backend layer of PoloDB: the Backend trait                  *)
(* (backend/backend.rs) and its Memory and File variants                   *)
(* (backend/memory/memory_backend.rs, backend/file/file_backend.rs).       *)
(*                                                                         *)
(* Every trait method locks the backend mutex for the whole call, so one   *)
(* call is one atomic step and a behaviour is an interleaving of calls of  *)
(* any number of callers.  A panic inside a call poisons the mutex: no     *)
(* later call changes the backend.                                         *)
(*                                                                         *)
(* DbSnapshot, DbSnapshotDraft, JournalManager and PageCache are used by   *)
(* the two backends but their code is not part of the sources at hand;     *)
(* their definitions follow the written specification (sections 3, 4.5,    *)
(* 4.6, 4.7) and are marked so in the comments.                            *)
(***************************************************************************)
EXTENDS Naturals, Integers, Sequences, FiniteSets, TLC

(***************************************************************************)
(* Bounds of the exploration.                                              *)
(***************************************************************************)
MaxPageId == 1
MaxData == 2
MaxSessions == 1
MaxWrites == 2
CacheCapacity == 1

(***************************************************************************)
(* Configuration of the backend under analysis, scaled down.               *)
(***************************************************************************)
PageSize == 2
InitBlockCount == 1
JournalFullSize == 2
HeaderImage == 1

PageIds == 0..MaxPageId
SessionIds == 1..MaxSessions
\* the byte sizes a caller passes to set_db_size
DbSizes == {k * PageSize : k \in 1..(MaxPageId + 1)}
TransactionTypes == {"Read", "Write"}

VARIABLES
    backend,          \* which variant of the Backend trait is in use
    poisoned,         \* the backend mutex is poisoned by a panic
    snapshot,         \* MemoryBackendInner.snapshot
    transaction,      \* MemoryBackendInner.transaction : Option<Transaction>
    state_map,        \* the session table of the backend in use
    file,             \* FileBackendInner.file: the main file, a sequence of pages
    file_tail,        \* the bytes of the main file behind its last whole page
    file_version,     \* the 4 bytes at offset 32 of the main file
    lock,             \* who holds the exclusive lock on the main file
    phase,            \* the life of the backend object: closed, open, or in the middle of drop
    config,           \* FileBackendInner.config
    journal_manager,  \* FileBackendInner.journal_manager
    page_cache,       \* FileBackendInner.page_cache
    idb,              \* IndexedDbBackendInner.ctx: the object store db_logs and the cursor request of load_data
    result,           \* the call made last and what it returned
    nWrites,          \* pages written so far by write_page
    h_written,        \* history: pages written by write_page since the transaction began
    h_discarded,      \* history: the last successful rollback dropped at least one written page
    h_view,           \* history: what read_page(id, None) and db_size() returned right after the last commit
    h_birth,          \* history: h_view as it was when each live session was created
    h_everWritten,    \* history: ids ever given to a successful write_page (and the header)
    h_starts,         \* history: successful start_transaction calls since the backend was last idle
    h_closed          \* history: how the backend was last closed: never, drop, crash, checkpoint_crash

memVars == <<snapshot, transaction>>
fileVars == <<file, journal_manager, page_cache>>
progVars == <<backend, poisoned, snapshot, transaction, state_map, file, journal_manager, page_cache>>
lifeVars == <<file_tail, file_version, lock, phase, config>>
histVars == <<h_written, h_discarded, h_view, h_birth, h_everWritten, h_starts, h_closed>>
vars == <<backend, poisoned, snapshot, transaction, state_map, file, journal_manager,
          page_cache, idb, file_tail, file_version, lock, phase, config, result, nWrites,
          h_written, h_discarded, h_view, h_birth, h_everWritten, h_starts, h_closed>>

(***************************************************************************)
(* Finite maps (HashMap, im::OrdMap) and Option values.                    *)
(***************************************************************************)
EmptyMap == [x \in {} |-> 0]
Put(m, k, v) == [x \in (DOMAIN m) \cup {k} |-> IF x = k THEN v ELSE m[x]]
Remove(m, k) == [x \in (DOMAIN m) \ {k} |-> m[x]]
Merge(a, b) == [x \in (DOMAIN a) \cup (DOMAIN b) |-> IF x \in DOMAIN b THEN b[x] ELSE a[x]]
None == <<>>
Some(x) == <<x>>
Get(m, k) == IF k \in DOMAIN m THEN Some(m[k]) ELSE None

(***************************************************************************)
(* RawPage and the values a call returns (DbResult).                       *)
(***************************************************************************)
RawPage_new(page_id) == [page_id |-> page_id, data |-> 0]
RawPages == [page_id : PageIds, data : 1..MaxData]

Ret(op, status, page) == [op |-> op, status |-> status, page |-> page]
Ok(op) == Ret(op, "Ok", None)
OkPage(op, data) == Ret(op, "Ok", Some(data))
Err(op, e) == Ret(op, e, None)
Panic(op) == Ret(op, "panic", None)
\* DbErr::InvalidSession carries the offending session id
InvalidSession(op, id) ==
    [op |-> op, status |-> "InvalidSession", page |-> None, session |-> id]
\* the status and page of a returned value, whichever call returned it
Outcome(r) == <<r.status, r.page>>

(***************************************************************************)
(* DbSnapshot and DbSnapshotDraft (written specification, 3 and 4.7).      *)
(***************************************************************************)
DbSnapshot_new(data_len) == [pages |-> EmptyMap, db_file_size |-> data_len]
DbSnapshot_read_page(s, page_id) == Get(s.pages, page_id)

DbSnapshotDraft_new(s) == [base |-> s, overlay |-> EmptyMap, db_file_size |-> s.db_file_size]
DbSnapshotDraft_read_page(d, page_id) ==
    IF page_id \in DOMAIN d.overlay THEN Some(d.overlay[page_id])
    ELSE DbSnapshot_read_page(d.base, page_id)
DbSnapshotDraft_write_page(d, page) ==
    [d EXCEPT !.overlay = Put(d.overlay, page.page_id, page.data)]
DbSnapshotDraft_set_db_file_size(d, size) == [d EXCEPT !.db_file_size = size]
DbSnapshotDraft_commit(d) ==
    [snapshot |-> [pages |-> Merge(d.base.pages, d.overlay), db_file_size |-> d.db_file_size],
     dirty_pages |-> d.overlay]

(***************************************************************************)
(* IndexedDbContext (indexeddb_backend.rs, store_data.rs): the object      *)
(* store db_logs, one IndexedDbStoreFrame per commit under an              *)
(* auto-incremented key, and the cursor request load_data starts.          *)
(***************************************************************************)
\* the most frames found in the object store at open
MaxFrames == 2

\* lz4_flex::frame::FrameEncoder over a Vec<u8>: written is what the Vec holds
\* (frame header, data blocks, end mark), buffered the input not yet written
\* as a block.  A block is written when max_block_size bytes are buffered
\* (64 KB at least, far more than a page) or at finish.
FrameEncoder_new == [written |-> <<>>, buffered |-> <<>>]

FrameEncoder_write_all(encoder, data) ==
    [written |-> IF encoder.written = <<>>
                 THEN <<[kind |-> "header", data |-> 0]>>
                 ELSE encoder.written,
     buffered |-> Append(encoder.buffered, data)]

FrameEncoder_finish(encoder) ==
    [written |-> encoder.written
                 \o [i \in 1..Len(encoder.buffered) |->
                        [kind |-> "block", data |-> encoder.buffered[i]]]
                 \o <<[kind |-> "end_mark", data |-> 0]>>,
     buffered |-> <<>>]

\* the LZ4 frame of a page image: what a finished encoder has written
Lz4Frame(data) ==
    FrameEncoder_finish(FrameEncoder_write_all(FrameEncoder_new, data)).written

\* FrameDecoder: the content of a frame; bytes that do not end with the end
\* mark are no frame
Lz4Decode(bytes) ==
    IF Len(bytes) >= 2 /\ bytes[1].kind = "header" /\ bytes[Len(bytes)].kind = "end_mark"
    THEN Some([i \in 1..(Len(bytes) - 2) |-> bytes[i + 1].data])
    ELSE None

\* IndexedDbStoreFrame: the page ids of a commit and, for each, the stored
\* bytes; here the LZ4 frame of an image
IndexedDbStoreFrames ==
    UNION {[ids -> {Lz4Frame(data) : data \in 1..MaxData}] : ids \in SUBSET PageIds}

\* the object stores that earlier commits may have left, in key order
ObjectStores == UNION {[1..n -> IndexedDbStoreFrames] : n \in 0..MaxFrames}

\* store: the frames in the object store; request: the cursor request (none,
\* pending: a success event is due, done); position: the frame the cursor is
\* at, Len(store) + 1 once it is exhausted; frames: the Vec the handler
\* fills; closure: the Closure set as the request's onsuccess; loaded: how
\* often ctx.loaded was called
IndexedDbContext(store) ==
    [store |-> store, request |-> "none", position |-> 0, frames |-> <<>>,
     closure |-> "none", loaded |-> 0]

\* a backend without IndexedDB
NoIdb == IndexedDbContext(<<>>)

(***************************************************************************)
(* Memory backend (memory_backend.rs).                                     *)
(***************************************************************************)
\* the pages live in a MemoryBackendInner: the memory backend itself, or the mem
\* of the IndexedDB backend, which hands every call of the trait on to it
InMemory == backend \in {"memory", "indexeddb"}

Transaction_new(ty, s) ==
    [ty |-> ty, draft |-> DbSnapshotDraft_new(s), dirty_pages |-> EmptyMap]

Memory_force_write_first_block(s) ==
    DbSnapshotDraft_commit(
        DbSnapshotDraft_write_page(DbSnapshotDraft_new(s),
                                   [page_id |-> 0, data |-> HeaderImage])).snapshot

\* MemoryBackendInner_new leaving page 0 unwritten
MemoryBackendInner_new_without_header == DbSnapshot_new(InitBlockCount * PageSize)

\* MemoryBackendInner::new: the snapshot of init_block_count pages with the header
MemoryBackendInner_new ==
    Memory_force_write_first_block(DbSnapshot_new(InitBlockCount * PageSize))

Memory_db_size ==
    IF transaction # None THEN transaction[1].draft.db_file_size
    ELSE snapshot.db_file_size

Memory_transaction_type ==
    IF transaction # None THEN Some(transaction[1].ty) ELSE None

\* Memory_read_page_main measuring the zero fill against the committed size only
Memory_read_page_main_committed_size(page_id) ==
    LET in_tx == IF transaction # None
                 THEN DbSnapshotDraft_read_page(transaction[1].draft, page_id)
                 ELSE None
        test_page == DbSnapshot_read_page(snapshot, page_id)
    IN  IF in_tx # None THEN OkPage("read_page", in_tx[1])
        ELSE IF test_page = None
             THEN IF page_id * PageSize < snapshot.db_file_size
                  THEN OkPage("read_page", RawPage_new(page_id).data)
                  ELSE Panic("read_page")
             ELSE OkPage("read_page", test_page[1])

Memory_read_page_main(page_id) ==
    LET in_tx == IF transaction # None
                 THEN DbSnapshotDraft_read_page(transaction[1].draft, page_id)
                 ELSE None
        test_page == DbSnapshot_read_page(snapshot, page_id)
    IN  IF in_tx # None THEN OkPage("read_page", in_tx[1])
        ELSE IF test_page = None
             THEN IF page_id * PageSize < Memory_db_size
                  THEN OkPage("read_page", RawPage_new(page_id).data)
                  ELSE Panic("read_page")
             ELSE OkPage("read_page", test_page[1])

\* Memory_read_page_value answering an unknown session from the main view
Memory_read_page_value_unknown_session_as_main(page_id, session_id) ==
    IF session_id # None /\ session_id[1] \in DOMAIN state_map
    THEN LET state == state_map[session_id[1]]
             test_page == DbSnapshotDraft_read_page(state.draft, page_id)
         IN  IF test_page = None
             THEN IF page_id * PageSize < state.draft.db_file_size
                  THEN OkPage("read_page", RawPage_new(page_id).data)
                  ELSE Panic("read_page")
             ELSE OkPage("read_page", test_page[1])
    ELSE Memory_read_page_main(page_id)

Memory_read_page_value(page_id, session_id) ==
    IF session_id # None
    THEN IF session_id[1] \notin DOMAIN state_map
         THEN InvalidSession("read_page", session_id[1])
         ELSE LET state == state_map[session_id[1]]
                  test_page == DbSnapshotDraft_read_page(state.draft, page_id)
              IN  IF test_page = None
                  THEN IF page_id * PageSize < state.draft.db_file_size
                       THEN OkPage("read_page", RawPage_new(page_id).data)
                       ELSE Panic("read_page")
                  ELSE OkPage("read_page", test_page[1])
    ELSE Memory_read_page_main(page_id)

Memory_read_page(page_id, session_id) ==
    /\ InMemory
    /\ result' = Memory_read_page_value(page_id, session_id)
    /\ poisoned' = (result'.status = "panic")
    /\ UNCHANGED <<backend, memVars, state_map, fileVars>>

\* Memory_write_page leaving the size of the draft as it is
Memory_write_page_keeping_size(page) ==
    /\ InMemory
    /\ IF transaction # None /\ transaction[1].ty = "Write"
       THEN /\ transaction' = Some([transaction[1] EXCEPT
                                      !.draft = DbSnapshotDraft_write_page(@, page)])
            /\ result' = Ok("write_page")
       ELSE /\ result' = Err("write_page", "CannotWriteDbWithoutTransaction")
            /\ UNCHANGED transaction
    /\ UNCHANGED <<backend, poisoned, snapshot, state_map, fileVars>>

\* Memory_write_page accepting a transaction of either type
Memory_write_page_any_transaction(page) ==
    /\ InMemory
    /\ IF transaction # None
       THEN /\ transaction' = Some([transaction[1] EXCEPT
                                      !.draft = DbSnapshotDraft_write_page(@, page)])
            /\ result' = Ok("write_page")
       ELSE /\ result' = Err("write_page", "CannotWriteDbWithoutTransaction")
            /\ UNCHANGED transaction
    /\ UNCHANGED <<backend, poisoned, snapshot, state_map, fileVars>>

Memory_write_page(page) ==
    /\ InMemory
    /\ IF transaction # None /\ transaction[1].ty = "Write"
       THEN LET written == DbSnapshotDraft_write_page(transaction[1].draft, page)
                expected_db_size == (page.page_id + 1) * PageSize
                draft == IF expected_db_size > written.db_file_size
                         THEN DbSnapshotDraft_set_db_file_size(written, expected_db_size)
                         ELSE written
            IN  /\ transaction' = Some([transaction[1] EXCEPT !.draft = draft])
                /\ result' = Ok("write_page")
       ELSE /\ result' = Err("write_page", "CannotWriteDbWithoutTransaction")
            /\ UNCHANGED transaction
    /\ UNCHANGED <<backend, poisoned, snapshot, state_map, fileVars>>

Memory_merge_transaction ==
    LET state == transaction[1]
        merged == DbSnapshotDraft_commit(state.draft)
    IN  /\ transaction' = None
        /\ snapshot' = merged.snapshot

Memory_commit ==
    /\ InMemory
    /\ IF transaction = None
       THEN /\ result' = Err("commit", "CannotWriteDbWithoutTransaction")
            /\ UNCHANGED <<snapshot, transaction>>
       ELSE /\ Memory_merge_transaction
            /\ result' = Ok("commit")
    /\ UNCHANGED <<backend, poisoned, state_map, fileVars>>

Memory_set_db_size(size) ==
    /\ InMemory
    /\ transaction' = IF transaction # None
                      THEN Some([transaction[1] EXCEPT
                                   !.draft = DbSnapshotDraft_set_db_file_size(@, size)])
                      ELSE transaction
    /\ result' = Ok("set_db_size")
    /\ UNCHANGED <<backend, poisoned, snapshot, state_map, fileVars>>

Memory_upgrade_read_transaction_to_write ==
    /\ InMemory
    /\ transaction' = Some(Transaction_new("Write", snapshot))
    /\ result' = Ok("upgrade_read_transaction_to_write")
    /\ UNCHANGED <<backend, poisoned, snapshot, state_map, fileVars>>

Memory_recover_file_and_state == transaction' = None

\* Memory_rollback without the test for an active transaction
Memory_rollback_unchecked ==
    /\ InMemory
    /\ Memory_recover_file_and_state
    /\ result' = Ok("rollback")
    /\ UNCHANGED <<backend, poisoned, snapshot, state_map, fileVars>>

Memory_rollback ==
    /\ InMemory
    /\ IF transaction = None
       THEN /\ result' = Err("rollback", "RollbackNotInTransaction")
            /\ UNCHANGED transaction
       ELSE /\ Memory_recover_file_and_state
            /\ result' = Ok("rollback")
    /\ UNCHANGED <<backend, poisoned, snapshot, state_map, fileVars>>

\* Memory_start_transaction without the Busy test
Memory_start_transaction_unchecked(ty) ==
    /\ InMemory
    /\ transaction' = Some(Transaction_new(ty, snapshot))
    /\ result' = Ok("start_transaction")
    /\ UNCHANGED <<backend, poisoned, snapshot, state_map, fileVars>>

Memory_start_transaction(ty) ==
    /\ InMemory
    /\ IF transaction # None
       THEN /\ result' = Err("start_transaction", "Busy")
            /\ UNCHANGED transaction
       ELSE /\ transaction' = Some(Transaction_new(ty, snapshot))
            /\ result' = Ok("start_transaction")
    /\ UNCHANGED <<backend, poisoned, snapshot, state_map, fileVars>>

\* Memory_new_session handing the session the writer's pending state
Memory_new_session_of_draft(id) ==
    /\ InMemory
    /\ state_map' = Put(state_map, id,
                        Transaction_new("Read",
                            IF transaction # None
                            THEN DbSnapshotDraft_commit(transaction[1].draft).snapshot
                            ELSE snapshot))
    /\ result' = Ok("new_session")
    /\ UNCHANGED <<backend, poisoned, memVars, fileVars>>

Memory_new_session(id) ==
    /\ InMemory
    /\ state_map' = Put(state_map, id, Transaction_new("Read", snapshot))
    /\ result' = Ok("new_session")
    /\ UNCHANGED <<backend, poisoned, memVars, fileVars>>

Memory_remove_session(id) ==
    /\ InMemory
    /\ state_map' = Remove(state_map, id)
    /\ result' = Ok("remove_session")
    /\ UNCHANGED <<backend, poisoned, memVars, fileVars>>

(***************************************************************************)
(* The version bytes of the header page (page/header_page_wrapper.rs,      *)
(* written specification 3 and 8): the library's version, and an older one *)
(* found in a file written by another release.                             *)
(***************************************************************************)
DATABASE_VERSION == <<0, 0, 0, 2>>
OtherVersion == <<0, 0, 0, 1>>

\* Config::default (config.rs), as far as the backend reads it
Config_default == [check_db_version |-> TRUE]

(***************************************************************************)
(* PageCache (written specification, 4.5): a bounded map from page id to   *)
(* page image.  The replacement policy is left open: an insert into a full *)
(* cache evicts any one of the cached pages.                               *)
(***************************************************************************)
PageCache_new_default == EmptyMap
PageCache_get_from_cache(cache, page_id) == Get(cache, page_id)
PageCache_insert_to_cache(cache, page) ==
    IF page.page_id \in DOMAIN cache \/ Cardinality(DOMAIN cache) < CacheCapacity
    THEN {Put(cache, page.page_id, page.data)}
    ELSE {Put(Remove(cache, victim), page.page_id, page.data) : victim \in DOMAIN cache}

(***************************************************************************)
(* JournalManager (written specification, 3, 4.2 and 4.6).                 *)
(*   frames      the page frames of the journal file, in append order      *)
(*   committed   the number of frames in front of the last commit marker   *)
(*   offset_map  page id -> offset of its most recent committed frame      *)
(*   db_size     the db size recorded by the last commit marker            *)
(*   transaction_state  the active transaction: its type, its pending map  *)
(*               (page id -> offset of a frame not yet committed) and its  *)
(*               pending db size                                           *)
(* A TransactionState handed to a session holds the offset map and the     *)
(* db size of the instant it was made.                                     *)
(***************************************************************************)
\* the journal file as it lies on disk: its page frames and the number of them in
\* front of the last commit marker; NoJournal when <db>.journal does not exist
JournalFile(j) == [frames |-> j.frames, committed |-> j.committed]
NoJournal == [frames |-> <<>>, committed |-> 0]

\* the journal manager of a backend that is not open: only the file is left
JournalManager_closed(journal_file) ==
    [frames |-> journal_file.frames, committed |-> journal_file.committed,
     offset_map |-> EmptyMap, db_size |-> 0, transaction_state |-> None]

\* the offset of the last frame of a page in a sequence of frames
LastFrameOf(frames, page_id) ==
    CHOOSE i \in 1..Len(frames) :
        /\ frames[i].page_id = page_id
        /\ \A k \in (i + 1)..Len(frames) : frames[k].page_id # page_id

\* open: the frames behind the last commit marker are dropped (6, recovery) and
\* the offset map is rebuilt from the committed frames; the db size is the one
\* the backend passes in
JournalManager_open(journal_file, db_file_size) ==
    LET kept == SubSeq(journal_file.frames, 1, journal_file.committed)
    IN  [frames |-> kept, committed |-> Len(kept),
         offset_map |-> [id \in {kept[i].page_id : i \in 1..Len(kept)} |-> LastFrameOf(kept, id)],
         db_size |-> db_file_size, transaction_state |-> None]

JournalManager_new_state(j, ty) ==
    [ty |-> ty, offset_map |-> j.offset_map, pending_map |-> EmptyMap, db_size |-> j.db_size]

JournalManager_len(j) == Len(j.frames)

JournalManager_record_db_size(j) ==
    IF j.transaction_state # None THEN j.transaction_state[1].db_size ELSE j.db_size

JournalManager_transaction_type(j) ==
    IF j.transaction_state # None THEN Some(j.transaction_state[1].ty) ELSE None

\* the payload of the frame at an offset; a frame that is no longer in the
\* journal file cannot be read (an I/O error)
JournalManager_frame(j, offset) ==
    IF offset <= Len(j.frames) THEN [status |-> "Ok", page |-> Some(j.frames[offset].data)]
    ELSE [status |-> "Io", page |-> None]

\* the main view: the pending frames of the active writer, then the committed ones
JournalManager_read_page_main(j, page_id) ==
    LET ts == j.transaction_state
    IN  IF ts # None /\ page_id \in DOMAIN ts[1].pending_map
        THEN JournalManager_frame(j, ts[1].pending_map[page_id])
        ELSE IF page_id \in DOMAIN j.offset_map
             THEN JournalManager_frame(j, j.offset_map[page_id])
             ELSE [status |-> "Ok", page |-> None]

\* a session's view: the offset map it captured
JournalManager_read_page(j, page_id, state) ==
    IF page_id \in DOMAIN state.offset_map
    THEN JournalManager_frame(j, state.offset_map[page_id])
    ELSE [status |-> "Ok", page |-> None]

JournalManager_start_transaction(j, ty) ==
    IF j.transaction_state # None
    THEN [status |-> "Busy", j |-> j]
    ELSE [status |-> "Ok",
          j |-> [j EXCEPT !.transaction_state = Some(JournalManager_new_state(j, ty))]]

JournalManager_upgrade_read_transaction_to_write(j) ==
    IF j.transaction_state # None /\ j.transaction_state[1].ty = "Read"
    THEN [status |-> "Ok", j |-> [j EXCEPT !.transaction_state[1].ty = "Write"]]
    ELSE [status |-> "Ok", j |-> j]

JournalManager_append_raw_page(j, page) ==
    IF j.transaction_state # None /\ j.transaction_state[1].ty = "Write"
    THEN LET ts == j.transaction_state[1]
             expected_db_size == (page.page_id + 1) * PageSize
         IN  [status |-> "Ok",
              j |-> [j EXCEPT
                       !.frames = Append(@, page),
                       !.transaction_state = Some(
                           [ts EXCEPT
                              !.pending_map = Put(@, page.page_id, Len(j.frames) + 1),
                              !.db_size = IF expected_db_size > @ THEN expected_db_size ELSE @])]]
    ELSE [status |-> "CannotWriteDbWithoutTransaction", j |-> j]

JournalManager_expand_db_size(j, size) ==
    IF j.transaction_state # None /\ j.transaction_state[1].ty = "Write"
    THEN [status |-> "Ok", j |-> [j EXCEPT !.transaction_state[1].db_size = size]]
    ELSE [status |-> "Ok", j |-> j]

\* the commit marker: the pending map is promoted into the offset map
JournalManager_commit(j) ==
    IF j.transaction_state = None
    THEN [status |-> "CannotWriteDbWithoutTransaction", j |-> j]
    ELSE LET ts == j.transaction_state[1]
         IN  [status |-> "Ok",
              j |-> [j EXCEPT
                       !.committed = Len(j.frames),
                       !.offset_map = Merge(@, ts.pending_map),
                       !.db_size = ts.db_size,
                       !.transaction_state = None]]

\* the pending map and the frames behind the last commit marker are dropped
JournalManager_rollback(j) ==
    IF j.transaction_state = None
    THEN [status |-> "RollbackNotInTransaction", j |-> j]
    ELSE [status |-> "Ok",
          j |-> [j EXCEPT
                   !.frames = SubSeq(@, 1, j.committed),
                   !.transaction_state = None]]

\* the main file with one page image written at page_id * page_size
WritePageToFile(f, page_id, data) ==
    [i \in 1..(IF page_id + 1 > Len(f) THEN page_id + 1 ELSE Len(f)) |->
        IF i = page_id + 1 THEN data ELSE IF i <= Len(f) THEN f[i] ELSE 0]

RECURSIVE CheckpointPages(_, _, _)
CheckpointPages(j, f, ids) ==
    IF ids = {} THEN f
    ELSE LET id == CHOOSE x \in ids : TRUE
         IN  CheckpointPages(j, WritePageToFile(f, id, j.frames[j.offset_map[id]].data),
                             ids \ {id})

\* every committed frame goes to the main file, the journal is truncated
JournalManager_checkpoint_journal(j, f) ==
    [file |-> CheckpointPages(j, f, DOMAIN j.offset_map),
     j |-> [j EXCEPT
              !.frames = SubSeq(@, j.committed + 1, Len(@)),
              !.committed = 0,
              !.offset_map = EmptyMap,
              !.transaction_state =
                  IF @ = None THEN None
                  ELSE Some([@[1] EXCEPT
                               !.pending_map = [x \in DOMAIN @ |-> @[x] - j.committed]])]]

(***************************************************************************)
(* File backend (file_backend.rs).                                         *)
(***************************************************************************)
\* open_file_native taking the file whoever holds the lock
open_file_native_ignoring_lock(lock_holder) == "Ok"

\* open_file_native: the exclusive lock (flock, or share_mode(0) on Windows) is
\* refused while anybody holds it
open_file_native(lock_holder) ==
    IF lock_holder # "free" THEN "DatabaseOccupied" ELSE "Ok"

\* HeaderPageWrapper::init writes DATABASE_VERSION at offset 32 of page 0
File_force_write_first_block(f) == WritePageToFile(f, 0, HeaderImage)

VersionMismatch(op, expect_version, actual_version) ==
    [op |-> op, status |-> "VersionMismatch", page |-> None,
     expect_version |-> expect_version, actual_version |-> actual_version]

File_check_db_version(version) ==
    IF version # DATABASE_VERSION
    THEN VersionMismatch("open", DATABASE_VERSION, version)
    ELSE Ok("open")

\* File_init_db initialising the file whatever its length
File_init_db_always_initialising(f, tail, version, init_block_count, check_db_version) ==
    [result |-> Ok("open"),
     file |-> File_force_write_first_block(
                  [i \in 1..(IF Len(f) > init_block_count THEN Len(f) ELSE init_block_count) |->
                      IF i <= Len(f) THEN f[i] ELSE 0]),
     version |-> DATABASE_VERSION,
     db_file_size |-> PageSize * init_block_count]

\* init_db on the main file f followed by tail bytes, with the version bytes
\* given: the result, the file and version bytes it leaves, and the db size
File_init_db(f, tail, version, init_block_count, check_db_version) ==
    LET file_len == Len(f) * PageSize + tail
        expected_file_size == PageSize * init_block_count
    IN  IF file_len = 0
        THEN [result |-> Ok("open"),
              file |-> File_force_write_first_block([i \in 1..init_block_count |-> 0]),
              version |-> DATABASE_VERSION,
              db_file_size |-> expected_file_size]
        ELSE IF file_len % PageSize = 0
        THEN IF check_db_version /\ File_check_db_version(version).status # "Ok"
             THEN [result |-> File_check_db_version(version),
                   file |-> f, version |-> version, db_file_size |-> 0]
             ELSE [result |-> Ok("open"),
                   file |-> f, version |-> version, db_file_size |-> file_len]
        ELSE [result |-> Err("open", "NotAValidDatabase"),
              file |-> f, version |-> version, db_file_size |-> 0]

File_is_journal_full == JournalManager_len(journal_manager) >= JournalFullSize

File_db_size == JournalManager_record_db_size(journal_manager)

File_transaction_type == JournalManager_transaction_type(journal_manager)

\* File_read_page_from_main_file_of taking a page that ends at the end of the
\* file for a page beyond it
File_read_page_from_main_file_short(f, page_id) ==
    LET offset == page_id * PageSize
    IN  IF Len(f) * PageSize > offset + PageSize
        THEN f[page_id + 1]
        ELSE RawPage_new(page_id).data

\* read_page_from_main_file on the main file f
File_read_page_from_main_file_of(f, page_id) ==
    LET offset == page_id * PageSize
    IN  IF Len(f) * PageSize >= offset + PageSize
        THEN f[page_id + 1]
        ELSE RawPage_new(page_id).data

File_read_page_from_main_file(page_id) == File_read_page_from_main_file_of(file, page_id)

\* read_page_main of a backend with the given page cache, journal and main file
File_read_page_main_of(cache, j, f, page_id) ==
    LET cached == PageCache_get_from_cache(cache, page_id)
        journaled == JournalManager_read_page_main(j, page_id)
    IN  IF cached # None THEN OkPage("read_page", cached[1])
        ELSE IF journaled.status # "Ok" THEN Err("read_page", journaled.status)
        ELSE IF journaled.page # None THEN OkPage("read_page", journaled.page[1])
        ELSE OkPage("read_page", File_read_page_from_main_file_of(f, page_id))

\* what read_page returns; the page cache it leaves behind is in File_read_page
File_read_page_main(page_id) ==
    File_read_page_main_of(page_cache, journal_manager, file, page_id)

File_read_page_value(page_id, session_id) ==
    IF session_id # None
    THEN IF session_id[1] \notin DOMAIN state_map
         THEN InvalidSession("read_page", session_id[1])
         ELSE LET state == state_map[session_id[1]]
                  journaled == JournalManager_read_page(journal_manager, page_id, state)
              IN  IF journaled.status # "Ok" THEN Err("read_page", journaled.status)
                  ELSE IF journaled.page # None THEN OkPage("read_page", journaled.page[1])
                  ELSE OkPage("read_page", File_read_page_from_main_file(page_id))
    ELSE File_read_page_main(page_id)

\* only a read without session that falls through to the main file fills the cache
File_read_page(page_id, session_id) ==
    /\ backend = "file"
    /\ result' = File_read_page_value(page_id, session_id)
    /\ IF /\ session_id = None
          /\ PageCache_get_from_cache(page_cache, page_id) = None
          /\ JournalManager_read_page_main(journal_manager, page_id) = [status |-> "Ok", page |-> None]
       THEN page_cache' \in PageCache_insert_to_cache(
                page_cache, [page_id |-> page_id, data |-> File_read_page_from_main_file(page_id)])
       ELSE UNCHANGED page_cache
    /\ UNCHANGED <<backend, poisoned, memVars, state_map, file, journal_manager>>

\* File_write_page leaving the page cache as it is
File_write_page_bypassing_cache(page) ==
    /\ backend = "file"
    /\ LET appended == JournalManager_append_raw_page(journal_manager, page)
       IN  IF appended.status # "Ok"
           THEN /\ result' = Err("write_page", appended.status)
                /\ UNCHANGED journal_manager
           ELSE /\ journal_manager' = appended.j
                /\ result' = Ok("write_page")
    /\ UNCHANGED <<backend, poisoned, memVars, state_map, file, page_cache>>

File_write_page(page) ==
    /\ backend = "file"
    /\ LET appended == JournalManager_append_raw_page(journal_manager, page)
       IN  IF appended.status # "Ok"
           THEN /\ result' = Err("write_page", appended.status)
                /\ UNCHANGED <<journal_manager, page_cache>>
           ELSE /\ journal_manager' = appended.j
                /\ page_cache' \in PageCache_insert_to_cache(page_cache, page)
                /\ result' = Ok("write_page")
    /\ UNCHANGED <<backend, poisoned, memVars, state_map, file>>

\* File_commit that never runs the checkpoint
File_commit_never_checkpointing ==
    /\ backend = "file"
    /\ LET marked == JournalManager_commit(journal_manager)
       IN  IF marked.status # "Ok"
           THEN /\ result' = Err("commit", marked.status)
                /\ UNCHANGED <<journal_manager, file>>
           ELSE /\ journal_manager' = marked.j
                /\ UNCHANGED file
                /\ result' = Ok("commit")
    /\ UNCHANGED <<backend, poisoned, memVars, state_map, page_cache>>

\* File_commit running the checkpoint whether or not a session is alive
File_commit_checkpoint_despite_sessions ==
    /\ backend = "file"
    /\ LET marked == JournalManager_commit(journal_manager)
       IN  IF marked.status # "Ok"
           THEN /\ result' = Err("commit", marked.status)
                /\ UNCHANGED <<journal_manager, file>>
           ELSE /\ IF JournalManager_len(marked.j) >= JournalFullSize
                   THEN LET merged == JournalManager_checkpoint_journal(marked.j, file)
                        IN  /\ journal_manager' = merged.j
                            /\ file' = merged.file
                   ELSE /\ journal_manager' = marked.j
                        /\ UNCHANGED file
                /\ result' = Ok("commit")
    /\ UNCHANGED <<backend, poisoned, memVars, state_map, page_cache>>

File_commit ==
    /\ backend = "file"
    /\ LET marked == JournalManager_commit(journal_manager)
       IN  IF marked.status # "Ok"
           THEN /\ result' = Err("commit", marked.status)
                /\ UNCHANGED <<journal_manager, file>>
           ELSE /\ IF JournalManager_len(marked.j) >= JournalFullSize /\ DOMAIN state_map = {}
                   THEN LET merged == JournalManager_checkpoint_journal(marked.j, file)
                        IN  /\ journal_manager' = merged.j
                            /\ file' = merged.file
                   ELSE /\ journal_manager' = marked.j
                        /\ UNCHANGED file
                /\ result' = Ok("commit")
    /\ UNCHANGED <<backend, poisoned, memVars, state_map, page_cache>>

File_set_db_size(size) ==
    /\ backend = "file"
    /\ LET expanded == JournalManager_expand_db_size(journal_manager, size)
       IN  /\ journal_manager' = expanded.j
           /\ result' = Ret("set_db_size", expanded.status, None)
    /\ UNCHANGED <<backend, poisoned, memVars, state_map, file, page_cache>>

File_upgrade_read_transaction_to_write ==
    /\ backend = "file"
    /\ LET upgraded == JournalManager_upgrade_read_transaction_to_write(journal_manager)
       IN  /\ journal_manager' = upgraded.j
           /\ result' = Ret("upgrade_read_transaction_to_write", upgraded.status, None)
    /\ UNCHANGED <<backend, poisoned, memVars, state_map, file, page_cache>>

\* File_rollback leaving the page cache as it is
File_rollback_keeping_cache ==
    /\ backend = "file"
    /\ LET rolled == JournalManager_rollback(journal_manager)
       IN  IF rolled.status # "Ok"
           THEN /\ result' = Err("rollback", rolled.status)
                /\ UNCHANGED journal_manager
           ELSE /\ journal_manager' = rolled.j
                /\ result' = Ok("rollback")
    /\ UNCHANGED <<backend, poisoned, memVars, state_map, file, page_cache>>

File_rollback ==
    /\ backend = "file"
    /\ LET rolled == JournalManager_rollback(journal_manager)
       IN  IF rolled.status # "Ok"
           THEN /\ result' = Err("rollback", rolled.status)
                /\ UNCHANGED <<journal_manager, page_cache>>
           ELSE /\ journal_manager' = rolled.j
                /\ page_cache' = PageCache_new_default
                /\ result' = Ok("rollback")
    /\ UNCHANGED <<backend, poisoned, memVars, state_map, file>>

File_start_transaction(ty) ==
    /\ backend = "file"
    /\ LET started == JournalManager_start_transaction(journal_manager, ty)
       IN  /\ journal_manager' = started.j
           /\ result' = Ret("start_transaction", started.status, None)
    /\ UNCHANGED <<backend, poisoned, memVars, state_map, file, page_cache>>

\* File_new_session handing the session the writer's pending frames and size
File_new_session_of_pending(id) ==
    /\ backend = "file"
    /\ state_map' = Put(state_map, id,
                        IF journal_manager.transaction_state # None
                        THEN [JournalManager_new_state(journal_manager, "Read") EXCEPT
                                !.offset_map = Merge(@, journal_manager.transaction_state[1].pending_map),
                                !.db_size = journal_manager.transaction_state[1].db_size]
                        ELSE JournalManager_new_state(journal_manager, "Read"))
    /\ result' = Ok("new_session")
    /\ UNCHANGED <<backend, poisoned, memVars, fileVars>>

File_new_session(id) ==
    /\ backend = "file"
    /\ state_map' = Put(state_map, id, JournalManager_new_state(journal_manager, "Read"))
    /\ result' = Ok("new_session")
    /\ UNCHANGED <<backend, poisoned, memVars, fileVars>>

File_remove_session(id) ==
    /\ backend = "file"
    /\ state_map' = Remove(state_map, id)
    /\ result' = Ok("remove_session")
    /\ UNCHANGED <<backend, poisoned, memVars, fileVars>>

\* FileBackendInner::open on the path: the lock, init_db (always called with
\* check_db_version = true), the journal, a new cache and session table.  A
\* failed open closes the file again, which gives the lock back.
File_open ==
    /\ backend = "file"
    /\ phase = "closed"
    /\ IF open_file_native(lock) # "Ok"
       THEN /\ result' = Err("open", open_file_native(lock))
            /\ UNCHANGED <<file, file_version, lock, phase, journal_manager, page_cache, state_map>>
       ELSE LET init_result == File_init_db(file, file_tail, file_version, InitBlockCount, TRUE)
            IN  IF init_result.result.status # "Ok"
                THEN /\ result' = init_result.result
                     /\ UNCHANGED <<file, file_version, lock, phase, journal_manager,
                                    page_cache, state_map>>
                ELSE /\ file' = init_result.file
                     /\ file_version' = init_result.version
                     /\ journal_manager' = JournalManager_open(JournalFile(journal_manager),
                                                               init_result.db_file_size)
                     /\ page_cache' = PageCache_new_default
                     /\ state_map' = EmptyMap
                     /\ lock' = "self"
                     /\ phase' = "open"
                     /\ result' = Ok("open")
    /\ UNCHANGED <<backend, poisoned, memVars, file_tail, config>>

\* File_drop_release leaving the session table as it is
File_drop_release_keeping_sessions ==
    /\ backend = "file"
    /\ phase = "open"
    /\ lock' = "free"
    /\ phase' = "dropping"
    /\ result' = Ok("drop")
    /\ UNCHANGED <<backend, poisoned, memVars, fileVars, state_map, file_tail, file_version,
                   config>>

\* Drop, first half: the sessions are cleared and the lock is given back
File_drop_release ==
    /\ backend = "file"
    /\ phase = "open"
    /\ state_map' = EmptyMap
    /\ lock' = "free"
    /\ phase' = "dropping"
    /\ result' = Ok("drop")
    /\ UNCHANGED <<backend, poisoned, memVars, fileVars, file_tail, file_version, config>>

\* Drop, second half: the final checkpoint, then the journal file is removed
File_drop_checkpoint ==
    /\ backend = "file"
    /\ phase = "dropping"
    /\ LET merged == JournalManager_checkpoint_journal(journal_manager, file)
       IN  file' = merged.file
    /\ journal_manager' = JournalManager_closed(NoJournal)
    /\ page_cache' = PageCache_new_default
    /\ phase' = "closed"
    /\ result' = Ok("drop")
    /\ UNCHANGED <<backend, poisoned, memVars, state_map, file_tail, file_version, lock, config>>

\* the process is killed between two calls: the files stay as they are, the
\* operating system gives the lock back
File_crash ==
    /\ backend = "file"
    /\ phase \in {"open", "dropping"}
    /\ journal_manager' = JournalManager_closed(JournalFile(journal_manager))
    /\ page_cache' = PageCache_new_default
    /\ state_map' = EmptyMap
    /\ lock' = IF lock = "self" THEN "free" ELSE lock
    /\ phase' = "closed"
    /\ result' = Ok("crash")
    /\ UNCHANGED <<backend, poisoned, memVars, file, file_tail, file_version, config>>

\* the process is killed inside the checkpoint of commit (the commit marker is
\* written, commit has not returned) or of drop: any of the committed pages is
\* in the main file already, the journal is not truncated yet
File_crash_in_checkpoint ==
    /\ backend = "file"
    /\ LET marked == JournalManager_commit(journal_manager)
           j == IF phase = "open" THEN marked.j ELSE journal_manager
       IN  /\ \/ phase = "dropping"
              \/ /\ phase = "open"
                 /\ marked.status = "Ok"
                 /\ JournalManager_len(marked.j) >= JournalFullSize
                 /\ DOMAIN state_map = {}
           /\ \E written \in SUBSET (DOMAIN j.offset_map) :
                 file' = CheckpointPages(j, file, written)
           /\ journal_manager' = JournalManager_closed(JournalFile(j))
    /\ page_cache' = PageCache_new_default
    /\ state_map' = EmptyMap
    /\ lock' = IF lock = "self" THEN "free" ELSE lock
    /\ phase' = "closed"
    /\ result' = Ok("crash")
    /\ UNCHANGED <<backend, poisoned, memVars, file_tail, file_version, config>>

\* somebody else opens the same path: the lock, then init_db; what that opener
\* does afterwards is not followed, it only reads
File_other_open ==
    /\ backend = "file"
    /\ IF open_file_native(lock) # "Ok"
       THEN /\ result' = Err("other_open", open_file_native(lock))
            /\ UNCHANGED <<file, file_version, lock>>
       ELSE LET init_result == File_init_db(file, file_tail, file_version, InitBlockCount, TRUE)
            IN  IF init_result.result.status # "Ok"
                THEN /\ result' = [init_result.result EXCEPT !.op = "other_open"]
                     /\ UNCHANGED <<file, file_version, lock>>
                ELSE /\ file' = init_result.file
                     /\ file_version' = init_result.version
                     /\ lock' = "other"
                     /\ result' = Ok("other_open")
    /\ UNCHANGED <<backend, poisoned, memVars, state_map, journal_manager, page_cache,
                   file_tail, phase, config>>

\* the other opener goes away
File_other_close ==
    /\ backend = "file"
    /\ lock = "other"
    /\ lock' = "free"
    /\ result' = Ok("other_close")
    /\ UNCHANGED <<backend, poisoned, memVars, fileVars, state_map, file_tail, file_version,
                   phase, config>>

(***************************************************************************)
(* The Backend trait (backend.rs): what a caller observes, whichever       *)
(* variant is behind it.                                                   *)
(***************************************************************************)
db_size == IF InMemory THEN Memory_db_size ELSE File_db_size

transaction_type ==
    IF InMemory THEN Memory_transaction_type ELSE File_transaction_type

\* the status and the page read_page(page_id, session_id) returns now
read_page_value(page_id, session_id) ==
    Outcome(IF InMemory THEN Memory_read_page_value(page_id, session_id)
            ELSE File_read_page_value(page_id, session_id))

\* the db size a session reads under
session_db_size(id) ==
    IF InMemory THEN state_map[id].draft.db_file_size ELSE state_map[id].db_size

\* everything read_page(id, None) and db_size() return now
View == [pages |-> [id \in PageIds |-> read_page_value(id, None)], db_size |-> db_size]
SessionView(s) == [id \in PageIds |-> read_page_value(id, Some(s))]

(***************************************************************************)
(* The calls of the trait, each one atomic step under the backend mutex,   *)
(* with the history kept of it.                                            *)
(***************************************************************************)
read_page(page_id, session_id) ==
    /\ phase = "open"
    /\ ~poisoned
    /\ UNCHANGED <<lifeVars, idb>>
    /\ \/ Memory_read_page(page_id, session_id)
       \/ File_read_page(page_id, session_id)
    /\ UNCHANGED <<nWrites, histVars>>

write_page(page) ==
    /\ phase = "open"
    /\ ~poisoned
    /\ UNCHANGED <<lifeVars, idb>>
    /\ nWrites < MaxWrites
    /\ \/ Memory_write_page(page)
       \/ File_write_page(page)
    /\ IF result'.status = "Ok"
       THEN /\ nWrites' = nWrites + 1
            /\ h_written' = Put(h_written, page.page_id, page.data)
            /\ h_everWritten' = h_everWritten \cup {page.page_id}
       ELSE UNCHANGED <<nWrites, h_written, h_everWritten>>
    /\ UNCHANGED <<h_discarded, h_view, h_birth, h_starts, h_closed>>

commit ==
    /\ phase = "open"
    /\ ~poisoned
    /\ UNCHANGED <<lifeVars, idb>>
    /\ \/ Memory_commit
       \/ File_commit
    /\ IF result'.status = "Ok"
       THEN /\ h_written' = EmptyMap
            /\ h_view' = View'
            /\ h_starts' = 0
       ELSE UNCHANGED <<h_written, h_view, h_starts>>
    /\ UNCHANGED <<nWrites, h_discarded, h_birth, h_everWritten, h_closed>>

rollback ==
    /\ phase = "open"
    /\ ~poisoned
    /\ UNCHANGED <<lifeVars, idb>>
    /\ \/ Memory_rollback
       \/ File_rollback
    /\ IF result'.status = "Ok"
       THEN /\ h_discarded' = (DOMAIN h_written # {})
            /\ h_written' = EmptyMap
            /\ h_starts' = 0
       ELSE UNCHANGED <<h_discarded, h_written, h_starts>>
    /\ UNCHANGED <<nWrites, h_view, h_birth, h_everWritten, h_closed>>

set_db_size(size) ==
    /\ phase = "open"
    /\ ~poisoned
    /\ UNCHANGED <<lifeVars, idb>>
    /\ \/ Memory_set_db_size(size)
       \/ File_set_db_size(size)
    /\ UNCHANGED <<nWrites, histVars>>

upgrade_read_transaction_to_write ==
    /\ phase = "open"
    /\ ~poisoned
    /\ UNCHANGED <<lifeVars, idb>>
    /\ \/ Memory_upgrade_read_transaction_to_write
       \/ File_upgrade_read_transaction_to_write
    /\ UNCHANGED <<nWrites, histVars>>

start_transaction(ty) ==
    /\ phase = "open"
    /\ ~poisoned
    /\ UNCHANGED <<lifeVars, idb>>
    /\ \/ Memory_start_transaction(ty)
       \/ File_start_transaction(ty)
    /\ h_starts' = IF result'.status = "Ok" THEN h_starts + 1 ELSE h_starts
    /\ UNCHANGED <<nWrites, h_written, h_discarded, h_view, h_birth, h_everWritten, h_closed>>

new_session(id) ==
    /\ phase = "open"
    /\ ~poisoned
    /\ UNCHANGED <<lifeVars, idb>>
    /\ \/ Memory_new_session(id)
       \/ File_new_session(id)
    /\ h_birth' = Put(h_birth, id, h_view)
    /\ UNCHANGED <<nWrites, h_written, h_discarded, h_view, h_everWritten, h_starts, h_closed>>

remove_session(id) ==
    /\ phase = "open"
    /\ ~poisoned
    /\ UNCHANGED <<lifeVars, idb>>
    /\ \/ Memory_remove_session(id)
       \/ File_remove_session(id)
    /\ h_birth' = Remove(h_birth, id)
    /\ UNCHANGED <<nWrites, h_written, h_discarded, h_view, h_everWritten, h_starts, h_closed>>

(***************************************************************************)
(* The state after construction: MemoryBackend::new, or FileBackend::open  *)
(* on a path that holds no file yet.                                       *)
(***************************************************************************)
Init ==
    /\ backend \in {"memory", "file"}
    /\ poisoned = FALSE
    /\ snapshot = MemoryBackendInner_new
    /\ transaction = None
    /\ state_map = EmptyMap
    /\ file = File_init_db(<<>>, 0, DATABASE_VERSION, InitBlockCount, TRUE).file
    /\ file_tail = 0
    /\ file_version = DATABASE_VERSION
    /\ lock = IF backend = "file" THEN "self" ELSE "free"
    /\ phase = "open"
    /\ config = Config_default
    /\ journal_manager = JournalManager_open(NoJournal, InitBlockCount * PageSize)
    /\ page_cache = PageCache_new_default
    /\ idb = NoIdb
    /\ result = Ok("open")
    /\ nWrites = 0
    /\ h_written = EmptyMap
    /\ h_discarded = FALSE
    /\ h_view = View
    /\ h_birth = EmptyMap
    /\ h_everWritten = {0}
    /\ h_starts = 0
    /\ h_closed = "never"

Next ==
    \/ \E page_id \in PageIds, session_id \in {None} \cup {Some(s) : s \in SessionIds} :
          read_page(page_id, session_id)
    \/ \E page \in RawPages : write_page(page)
    \/ commit
    \/ rollback
    \/ \E size \in DbSizes : set_db_size(size)
    \/ upgrade_read_transaction_to_write
    \/ \E ty \in TransactionTypes : start_transaction(ty)
    \/ \E id \in SessionIds : new_session(id)
    \/ \E id \in SessionIds : remove_session(id)

Spec == Init /\ [][Next]_vars

(***************************************************************************)
(* The life of a file backend on one path that holds no file at first:     *)
(* FileBackend::open, the calls of the trait, drop, the death of the       *)
(* process, and other openers of the same path.                            *)
(***************************************************************************)
open ==
    /\ File_open
    /\ UNCHANGED idb
    /\ IF result'.status = "Ok"
       THEN /\ h_view' = View'
            /\ h_written' = EmptyMap
            /\ h_starts' = 0
       ELSE UNCHANGED <<h_view, h_written, h_starts>>
    /\ UNCHANGED <<nWrites, h_discarded, h_birth, h_everWritten, h_closed>>

drop_release ==
    /\ File_drop_release
    /\ UNCHANGED idb
    /\ h_birth' = EmptyMap
    /\ UNCHANGED <<nWrites, h_written, h_discarded, h_view, h_everWritten, h_starts, h_closed>>

drop_checkpoint ==
    /\ File_drop_checkpoint
    /\ UNCHANGED idb
    /\ h_closed' = "drop"
    /\ h_written' = EmptyMap
    /\ h_starts' = 0
    /\ UNCHANGED <<nWrites, h_discarded, h_view, h_birth, h_everWritten>>

crash ==
    /\ File_crash
    /\ UNCHANGED idb
    /\ h_closed' = "crash"
    /\ h_birth' = EmptyMap
    /\ h_starts' = 0
    /\ UNCHANGED <<nWrites, h_written, h_discarded, h_view, h_everWritten>>

\* a commit whose marker is written publishes what the transaction read
crash_in_checkpoint ==
    /\ File_crash_in_checkpoint
    /\ UNCHANGED idb
    /\ h_closed' = "checkpoint_crash"
    /\ h_birth' = EmptyMap
    /\ h_starts' = 0
    /\ IF phase = "open"
       THEN /\ h_view' = View
            /\ h_written' = EmptyMap
       ELSE UNCHANGED <<h_view, h_written>>
    /\ UNCHANGED <<nWrites, h_discarded, h_everWritten>>

other_open ==
    /\ File_other_open
    /\ UNCHANGED idb
    /\ UNCHANGED <<nWrites, histVars>>

other_close ==
    /\ File_other_close
    /\ UNCHANGED idb
    /\ UNCHANGED <<nWrites, histVars>>

FileInit ==
    /\ backend = "file"
    /\ poisoned = FALSE
    /\ snapshot = MemoryBackendInner_new
    /\ transaction = None
    /\ state_map = EmptyMap
    /\ file = <<>>
    /\ file_tail = 0
    /\ file_version = DATABASE_VERSION
    /\ lock = "free"
    /\ phase = "closed"
    /\ config = Config_default
    /\ journal_manager = JournalManager_closed(NoJournal)
    /\ page_cache = PageCache_new_default
    /\ idb = NoIdb
    /\ result = Ok("none")
    /\ nWrites = 0
    /\ h_written = EmptyMap
    /\ h_discarded = FALSE
    /\ h_view = None
    /\ h_birth = EmptyMap
    /\ h_everWritten = {0}
    /\ h_starts = 0
    /\ h_closed = "never"

FileNext ==
    \/ open
    \/ \E page_id \in PageIds, session_id \in {None} \cup {Some(s) : s \in SessionIds} :
          read_page(page_id, session_id)
    \/ \E page \in RawPages : write_page(page)
    \/ commit
    \/ rollback
    \/ \E size \in DbSizes : set_db_size(size)
    \/ upgrade_read_transaction_to_write
    \/ \E ty \in TransactionTypes : start_transaction(ty)
    \/ \E id \in SessionIds : new_session(id)
    \/ \E id \in SessionIds : remove_session(id)
    \/ drop_release
    \/ drop_checkpoint
    \/ crash
    \/ crash_in_checkpoint
    \/ other_open
    \/ other_close

FileSpec == FileInit /\ [][FileNext]_vars

(***************************************************************************)
(* Construction: MemoryBackend::new, and FileBackend::open on a path that  *)
(* holds whatever file was left there, under either setting of             *)
(* check_db_version.                                                       *)
(***************************************************************************)
\* the longest main file found on the path, in pages
MaxFilePages == 2

\* the main files that may lie on the path before the first open
Files == UNION {[1..n -> 0..MaxData] : n \in 0..MaxFilePages}

\* MemoryBackend::new
Memory_new ==
    /\ backend = "memory"
    /\ phase = "closed"
    /\ snapshot' = MemoryBackendInner_new
    /\ transaction' = None
    /\ state_map' = EmptyMap
    /\ phase' = "open"
    /\ result' = Ok("new")
    /\ UNCHANGED <<backend, poisoned, fileVars, file_tail, file_version, lock, config>>

new ==
    /\ Memory_new
    /\ UNCHANGED idb
    /\ h_view' = View'
    /\ UNCHANGED <<nWrites, h_written, h_discarded, h_birth, h_everWritten, h_starts, h_closed>>

OpenInit ==
    /\ backend \in {"memory", "file"}
    /\ poisoned = FALSE
    /\ snapshot = DbSnapshot_new(0)
    /\ transaction = None
    /\ state_map = EmptyMap
    /\ file \in (IF backend = "file" THEN Files ELSE {<<>>})
    /\ file_tail \in (IF backend = "file" THEN 0..(PageSize - 1) ELSE {0})
    /\ file_version \in {DATABASE_VERSION, OtherVersion}
    /\ lock = "free"
    /\ phase = "closed"
    /\ config \in [check_db_version : BOOLEAN]
    /\ journal_manager = JournalManager_closed(NoJournal)
    /\ page_cache = PageCache_new_default
    /\ idb = NoIdb
    /\ result = Ok("none")
    /\ nWrites = 0
    /\ h_written = EmptyMap
    /\ h_discarded = FALSE
    /\ h_view = None
    /\ h_birth = EmptyMap
    /\ h_everWritten = {0}
    /\ h_starts = 0
    /\ h_closed = "never"

OpenNext ==
    \/ new
    \/ open
    \/ \E page_id \in PageIds : read_page(page_id, None)
    \/ \E ty \in TransactionTypes : start_transaction(ty)
    \/ \E id \in SessionIds : new_session(id)
    \/ drop_release
    \/ drop_checkpoint
    \/ crash
    \/ other_open
    \/ other_close

OpenSpec == OpenInit /\ [][OpenNext]_vars

(***************************************************************************)
(* IndexedDB backend (indexeddb_backend.rs): a memory backend, mem, whose  *)
(* commits are also added to the object store.  A call of the browser into *)
(* the module (a method, the handler of an event) runs to its end before   *)
(* the next one begins.                                                    *)
(***************************************************************************)
\* IndexedDb_load_data keeping the Closure of the handler alive
IndexedDb_load_data_keeping_closure(ctx) ==
    [ctx EXCEPT !.request = "pending", !.position = 1, !.frames = <<>>, !.closure = "alive"]

\* load_data: opens a cursor on db_logs and sets the handler of its success
\* events.  The Closure is a local of load_data and is dropped when load_data
\* returns, before the first event: wasm-bindgen then invalidates the
\* function it gave to the request.
IndexedDb_load_data(ctx) ==
    [ctx EXCEPT !.request = "pending", !.position = 1, !.frames = <<>>, !.closure = "dropped"]

\* IndexedDbBackend::open: IndexedDbBackendInner::open, then load_data
IndexedDb_open ==
    /\ backend = "indexeddb"
    /\ phase = "closed"
    /\ snapshot' = MemoryBackendInner_new
    /\ transaction' = None
    /\ state_map' = EmptyMap
    /\ idb' = IndexedDb_load_data(idb)
    /\ phase' = "open"
    /\ result' = Ok("open")
    /\ UNCHANGED <<backend, poisoned, fileVars, file_tail, file_version, lock, config>>

\* the success event of the cursor request.  Called after its Closure was
\* dropped the handler throws and the request is not continued; otherwise it
\* pushes the frame under the cursor and continues the cursor, or, the
\* cursor exhausted, calls loaded.  mem is not touched either way.
IndexedDb_onsuccess ==
    /\ backend = "indexeddb"
    /\ idb.request = "pending"
    /\ IF idb.closure = "dropped"
       THEN /\ idb' = [idb EXCEPT !.request = "done"]
            /\ result' = Err("onsuccess", "closure invoked after being dropped")
       ELSE IF idb.position <= Len(idb.store)
       THEN /\ idb' = [idb EXCEPT !.frames = Append(@, idb.store[idb.position]),
                                  !.position = @ + 1]
            /\ result' = Ok("onsuccess")
       ELSE /\ idb' = [idb EXCEPT !.loaded = @ + 1, !.request = "done"]
            /\ result' = Ok("loaded")
    /\ UNCHANGED <<backend, poisoned, memVars, state_map, fileVars, lifeVars>>

\* IndexedDbBackendInner::read_page: mem.read_page
IndexedDb_read_page(page_id, session_id) ==
    /\ backend = "indexeddb"
    /\ phase = "open"
    /\ ~poisoned
    /\ result' = Memory_read_page_value(page_id, session_id)
    /\ poisoned' = (result'.status = "panic")
    /\ UNCHANGED <<backend, memVars, state_map, fileVars, lifeVars, idb>>

\* IndexedDb_fast_compress calling finish on the encoder
IndexedDb_fast_compress_finished(data) ==
    FrameEncoder_finish(FrameEncoder_write_all(FrameEncoder_new, data)).written

\* fast_compress: the page goes into a FrameEncoder over out_data, which is
\* returned without finish: out_data holds what the encoder had written by then
IndexedDb_fast_compress(data) ==
    FrameEncoder_write_all(FrameEncoder_new, data).written

\* transaction_to_store_frame: the dirty pages, each compressed, under their ids
IndexedDb_transaction_to_store_frame(dirty_pages) ==
    [id \in DOMAIN dirty_pages |-> IndexedDb_fast_compress(dirty_pages[id])]

\* write_transaction_to_indexeddb: obj_store.add(frame) under the next key
IndexedDb_write_transaction_to_indexeddb(ctx, dirty_pages) ==
    [ctx EXCEPT !.store = Append(@, IndexedDb_transaction_to_store_frame(dirty_pages))]

\* IndexedDbBackendInner::commit: mem.commit()?, then the frame of the
\* transaction it returned goes to the object store
IndexedDb_commit ==
    /\ backend = "indexeddb"
    /\ Memory_commit
    /\ idb' = IF transaction = None
              THEN idb
              ELSE IndexedDb_write_transaction_to_indexeddb(
                       idb, DbSnapshotDraft_commit(transaction[1].draft).dirty_pages)

indexeddb_open ==
    /\ IndexedDb_open
    /\ UNCHANGED <<nWrites, histVars>>

indexeddb_onsuccess ==
    /\ IndexedDb_onsuccess
    /\ UNCHANGED <<nWrites, histVars>>

indexeddb_read_page(page_id, session_id) ==
    /\ IndexedDb_read_page(page_id, session_id)
    /\ UNCHANGED <<nWrites, histVars>>

IdbInit ==
    /\ backend = "indexeddb"
    /\ poisoned = FALSE
    /\ snapshot = DbSnapshot_new(0)
    /\ transaction = None
    /\ state_map = EmptyMap
    /\ file = <<>>
    /\ file_tail = 0
    /\ file_version = DATABASE_VERSION
    /\ lock = "free"
    /\ phase = "closed"
    /\ config = Config_default
    /\ journal_manager = JournalManager_closed(NoJournal)
    /\ page_cache = PageCache_new_default
    /\ idb \in {IndexedDbContext(store) : store \in ObjectStores}
    /\ result = Ok("none")
    /\ nWrites = 0
    /\ h_written = EmptyMap
    /\ h_discarded = FALSE
    /\ h_view = None
    /\ h_birth = EmptyMap
    /\ h_everWritten = {0}
    /\ h_starts = 0
    /\ h_closed = "never"

IdbNext ==
    \/ indexeddb_open
    \/ indexeddb_onsuccess
    \/ \E page_id \in PageIds : indexeddb_read_page(page_id, None)

\* the browser delivers every event that is due
IdbSpec == IdbInit /\ [][IdbNext]_vars /\ WF_vars(indexeddb_onsuccess)

(***************************************************************************)
(* The IndexedDB backend at work on an object store that is empty at open: *)
(* the calls of the trait go to mem, commit also to the object store.      *)
(***************************************************************************)
indexeddb_commit ==
    /\ phase = "open"
    /\ ~poisoned
    /\ Len(idb.store) < MaxFrames
    /\ UNCHANGED lifeVars
    /\ IndexedDb_commit
    /\ IF result'.status = "Ok"
       THEN /\ h_written' = EmptyMap
            /\ h_view' = View'
            /\ h_starts' = 0
       ELSE UNCHANGED <<h_written, h_view, h_starts>>
    /\ UNCHANGED <<nWrites, h_discarded, h_birth, h_everWritten, h_closed>>

IdbCommitInit ==
    /\ IdbInit
    /\ idb.store = <<>>

IdbCommitNext ==
    \/ indexeddb_open
    \/ indexeddb_onsuccess
    \/ \E page_id \in PageIds, session_id \in {None} \cup {Some(s) : s \in SessionIds} :
          read_page(page_id, session_id)
    \/ \E page \in RawPages : write_page(page)
    \/ indexeddb_commit
    \/ rollback
    \/ \E size \in DbSizes : set_db_size(size)
    \/ upgrade_read_transaction_to_write
    \/ \E ty \in TransactionTypes : start_transaction(ty)
    \/ \E id \in SessionIds : new_session(id)
    \/ \E id \in SessionIds : remove_session(id)

IdbCommitSpec == IdbCommitInit /\ [][IdbCommitNext]_vars

(***************************************************************************)
(* Properties.                                                             *)
(***************************************************************************)
PageRead(data) == <<"Ok", Some(data)>>
ZeroPageRead == PageRead(0)
WriteActive == transaction_type = Some("Write")
Idle == transaction_type = None

\* C1: memory backend round trip.  When a write transaction commits, a
\* read_page(id, None) made after the commit returns, for every id given to
\* write_page in that transaction, the bytes of the last page written for it.
C1_MemoryRoundTrip ==
    [][(backend = "memory" /\ commit /\ result'.status = "Ok")
         => \A id \in DOMAIN h_written :
               read_page_value(id, None)' = PageRead(h_written[id])]_vars

\* C2: read your writes.  While the write transaction is open, read_page(id, None)
\* returns, for every id written in it, the bytes of the latest write_page for
\* that id, in both backends and whatever the page cache holds.
C2_ReadYourWrites ==
    \A id \in DOMAIN h_written : read_page_value(id, None) = PageRead(h_written[id])

C3_SessionMatchesBirth(s) == SessionView(s) = h_birth[s].pages

\* C3: snapshot isolation.  Whatever start_transaction, write_page, set_db_size,
\* commit and rollback calls follow new_session(S), read_page(id, S) returns for
\* every page id what was committed when S was created, until remove_session(S).
C3_SnapshotIsolation == \A s \in DOMAIN state_map : C3_SessionMatchesBirth(s)

\* with no transaction open, a read has just returned to a live session the image
\* of its birth for a page whose committed image has changed since
C3_Witness ==
    /\ result.op = "read_page"
    /\ Idle
    /\ \E s \in DOMAIN state_map : \E id \in PageIds :
          /\ h_view.pages[id] # h_birth[s].pages[id]
          /\ Outcome(result) = h_birth[s].pages[id]
          /\ result.page # None

\* C4: visibility after commit.  A successful commit makes the transaction's page
\* images the ones read_page(id, None) returns afterwards; a session created by
\* new_session after it reads those images; a session created before it reads
\* after the commit what it read before.
C4_VisibilityAfterCommit ==
    [][/\ (commit /\ result'.status = "Ok")
            => /\ \A id \in PageIds :
                     read_page_value(id, None)' = read_page_value(id, None)
               /\ \A s \in DOMAIN state_map : SessionView(s)' = SessionView(s)
       /\ \A s \in SessionIds : new_session(s) => SessionView(s)' = h_view.pages]_vars

\* a session was just created after a commit that published a written page
C4_Witness ==
    /\ result.op = "new_session"
    /\ \E s \in DOMAIN state_map :
          /\ SessionView(s) = h_view.pages
          /\ \E id \in PageIds \ {0} : \E data \in 1..MaxData :
                h_view.pages[id] = PageRead(data)

\* C5: rollback law.  After a successful rollback no transaction is active, and
\* db_size() and read_page(id, None) for every id return what they returned
\* before the transaction began; the file backend's page cache holds none of
\* the pages written in the rolled-back transaction.
C5_RollbackLaw ==
    [][(rollback /\ result'.status = "Ok")
         => /\ Idle'
            /\ View' = h_view
            /\ (DOMAIN page_cache') \cap (DOMAIN h_written) = {}]_vars

\* a rollback has just dropped the pages of a write transaction
C5_Witness ==
    /\ result.op = "rollback"
    /\ result.status = "Ok"
    /\ h_discarded

\* C6: single transaction.  The calls being serialised by the backend mutex,
\* start_transaction succeeds exactly when no transaction is active; issued
\* while one is active it returns Busy and changes nothing of the backend, so
\* between two idle moments at most one start_transaction succeeds.
C6_SingleTransaction ==
    /\ [](h_starts <= 1 /\ (h_starts = 1 => ~Idle))
    /\ [][\A ty \in TransactionTypes :
             start_transaction(ty)
               => IF Idle
                  THEN result'.status = "Ok" /\ transaction_type' = Some(ty)
                  ELSE result'.status = "Busy" /\ UNCHANGED progVars]_vars

\* a start_transaction has just lost against the one that opened the write transaction
C6_Witness ==
    /\ result = Err("start_transaction", "Busy")
    /\ h_starts = 1
    /\ WriteActive

\* C7: write_page without an active write transaction (none, or a read one)
\* returns CannotWriteDbWithoutTransaction and changes nothing of the backend.
C7_WriteNeedsWriteTransaction ==
    [][\A page \in RawPages :
          (write_page(page) /\ ~WriteActive)
            => /\ result'.status = "CannotWriteDbWithoutTransaction"
               /\ UNCHANGED progVars]_vars

\* write_page has just been refused under a read transaction
C7_Witness ==
    /\ result = Err("write_page", "CannotWriteDbWithoutTransaction")
    /\ transaction_type = Some("Read")

\* C8: rollback with no active transaction returns RollbackNotInTransaction and
\* changes nothing; with a transaction of either type it succeeds and leaves
\* transaction_type() = None.
C8_Rollback ==
    [][rollback
         => IF Idle
            THEN result'.status = "RollbackNotInTransaction" /\ UNCHANGED progVars
            ELSE result'.status = "Ok" /\ Idle']_vars

\* rollback has just been refused on a backend with a live session and committed pages
C8_Witness ==
    /\ result = Err("rollback", "RollbackNotInTransaction")
    /\ DOMAIN state_map # {}
    /\ nWrites > 0

\* C9: set_db_size called with no write transaction active (none, or a read
\* one) leaves db_size() as it was.
C9_SetDbSizeOnlyInWrite ==
    [][\A size \in DbSizes :
          (set_db_size(size) /\ ~WriteActive) => db_size' = db_size]_vars

\* C10: zero fill.  A page never written whose offset id * page_size lies below
\* the db size of the caller's view is read as a page of zero bytes, without
\* error: by read_page(id, None) under db_size(), and by read_page(id, S) under
\* the db size session S was created with.
C10_ZeroFill ==
    \A id \in PageIds \ h_everWritten :
        /\ id * PageSize < db_size => read_page_value(id, None) = ZeroPageRead
        /\ \A s \in DOMAIN state_map :
              id * PageSize < session_db_size(s)
                => read_page_value(id, Some(s)) = ZeroPageRead

\* a page beyond the end of the main file, inside a db size grown by a committed
\* set_db_size, has just been read as zeros
C10_Witness ==
    /\ backend = "file"
    /\ Idle
    /\ result = OkPage("read_page", 0)
    /\ \E id \in PageIds \ h_everWritten :
          /\ id * PageSize >= Len(file) * PageSize
          /\ id * PageSize < db_size
          /\ id \in DOMAIN page_cache

\* C11: read_page of a page whose offset id * page_size is at or beyond the db
\* size of the caller's view returns an error value: it neither returns a page
\* nor panics, without session under db_size() and with a session under the db
\* size the session was created with.
C11_ReadBeyondDbSizeIsError ==
    \A id \in PageIds :
        /\ id * PageSize >= db_size
             => read_page_value(id, None)[1] \notin {"Ok", "panic"}
        /\ \A s \in DOMAIN state_map :
              id * PageSize >= session_db_size(s)
                => read_page_value(id, Some(s))[1] \notin {"Ok", "panic"}

\* C12: read_page(id, Some(S)) for an S that is not a live session (never given
\* to new_session, or already removed by remove_session) returns
\* InvalidSession(S) and changes nothing of the backend; remove_session of such
\* an S succeeds and changes nothing.
C12_InvalidSession ==
    [][\A s \in SessionIds :
          s \notin DOMAIN h_birth
            => /\ \A id \in PageIds :
                     read_page(id, Some(s))
                       => result' = InvalidSession("read_page", s) /\ UNCHANGED progVars
               /\ remove_session(s)
                    => result' = Ok("remove_session") /\ UNCHANGED progVars]_vars

\* a read has just been refused for a session that is not alive, while a write
\* transaction with a written page is open
C12_Witness ==
    /\ result.op = "read_page"
    /\ result.status = "InvalidSession"
    /\ result.session \notin DOMAIN h_birth
    /\ WriteActive
    /\ DOMAIN h_written # {}

\* a commit has just truncated the journal: its checkpoint ran
CommitCheckpointed ==
    /\ commit
    /\ JournalManager_len(journal_manager') < JournalManager_len(journal_manager)

\* the frame a captured offset refers to is still in the journal file
FrameKept(id, offset) ==
    /\ offset <= Len(journal_manager.frames)
    /\ journal_manager.frames[offset].page_id = id

\* C13: file backend.  No checkpoint runs while a session is alive: the session
\* table is empty whenever the checkpoint of commit or the checkpoint of drop
\* starts, and every frame that the offset map of a live session refers to is
\* still in the journal.
C13_NoCheckpointWhileSessionAlive ==
    /\ [][(CommitCheckpointed \/ drop_checkpoint) => DOMAIN state_map = {}]_vars
    /\ [](\A s \in DOMAIN state_map :
             \A id \in DOMAIN state_map[s].offset_map :
                 FrameKept(id, state_map[s].offset_map[id]))

\* a commit has just left a full journal alone because a session that refers to
\* one of its frames is alive
C13_Witness ==
    /\ result = Ok("commit")
    /\ phase = "open"
    /\ JournalManager_len(journal_manager) >= JournalFullSize
    /\ \E s \in DOMAIN state_map : DOMAIN state_map[s].offset_map # {}

\* C14: checkpoint equivalence.  When the checkpoint of a commit runs, every
\* read_page(id, None) and db_size() return after it what they returned right
\* before it, that is with the commit marker written and the journal not yet
\* merged; the page cache is the same before and after.
C14_CheckpointEquivalence ==
    [][CommitCheckpointed
         => LET marked == JournalManager_commit(journal_manager).j
            IN  /\ \A id \in PageIds :
                      File_read_page_main_of(page_cache', journal_manager', file', id)
                        = File_read_page_main_of(page_cache, marked, file, id)
                /\ db_size' = JournalManager_record_db_size(marked)
                /\ page_cache' = page_cache]_vars

\* a checkpoint has just moved a page that is not in the page cache from the
\* journal to the main file
C14_Witness ==
    /\ result = Ok("commit")
    /\ JournalManager_len(journal_manager) = 0
    /\ \E id \in PageIds \ {0} :
          /\ id \in h_everWritten
          /\ id \notin DOMAIN page_cache
          /\ Len(file) > id
          /\ file[id + 1] # 0

ReopenedAfterCrash ==
    /\ open
    /\ result'.status = "Ok"
    /\ h_closed \in {"crash", "checkpoint_crash"}

\* C15: durability of the file backend.  Once the commit marker of a transaction
\* is written, the process may die at any later moment, between two calls or
\* inside a checkpoint: the backend opened on the path afterwards returns from
\* read_page(id, None), for every page id, the image committed last.
C15_Durability ==
    [][ReopenedAfterCrash => View'.pages = h_view.pages]_vars

\* the backend is open again after the process died inside a checkpoint that
\* had moved one committed page to the main file and not yet another one
C15_Witness ==
    /\ result = Ok("open")
    /\ h_closed = "checkpoint_crash"
    /\ \E id \in DOMAIN journal_manager.offset_map :
          File_read_page_from_main_file(id)
            # journal_manager.frames[journal_manager.offset_map[id]].data
    /\ \E id \in DOMAIN journal_manager.offset_map \ {0} :
          /\ File_read_page_from_main_file(id)
               = journal_manager.frames[journal_manager.offset_map[id]].data
          /\ h_view.pages[id] # ZeroPageRead

ReopenedAfterCrashInBatch ==
    /\ open
    /\ result'.status = "Ok"
    /\ h_closed = "crash"
    /\ DOMAIN h_written # {}

\* C16: recovery of the file backend.  When the process dies after write_page
\* calls of a write transaction whose commit marker is not written, the backend
\* opened on the path afterwards is in the state committed last: read_page(id,
\* None) returns for every id the image committed last, none of the lost
\* writes, and db_size() returns the size committed last.
C16_Recovery ==
    [][ReopenedAfterCrashInBatch => View' = h_view]_vars

\* the half of C16 about the pages alone
C16_RecoveryOfPages ==
    [][ReopenedAfterCrashInBatch => View'.pages = h_view.pages]_vars

(***************************************************************************)
(* Exclusive open.                                                         *)
(***************************************************************************)
\* the backend is alive: opened and its drop has not begun
Alive == phase = "open"

\* C17: while the backend opened on the path is alive, every other attempt to
\* open the path fails with DatabaseOccupied and changes nothing (no second
\* backend holds the lock or has touched the files); once the backend is
\* dropped and nobody else has taken the path, a new open succeeds.
C17_ExclusiveOpen ==
    /\ [][(Alive /\ other_open)
            => /\ result' = Err("other_open", "DatabaseOccupied")
               /\ UNCHANGED <<progVars, lifeVars>>]_vars
    /\ [][(open /\ h_closed = "drop" /\ lock = "free")
            => /\ result' = Ok("open")
               /\ Alive'
               /\ lock' = "self"]_vars
    /\ [](Alive => lock = "self")

\* a backend was dropped, the path was opened again, and an attempt of somebody
\* else to open it was refused
C17_Witness ==
    /\ Alive
    /\ h_closed = "drop"
    /\ result = Err("other_open", "DatabaseOccupied")
    /\ lock = "self"

(***************************************************************************)
(* Construction.                                                           *)
(***************************************************************************)
\* the length in bytes of the main file on the path
FileLen == Len(file) * PageSize + file_tail

\* open gets the lock and finds a non-empty, page-aligned main file whose
\* version bytes are not DATABASE_VERSION
OpenOfOtherVersion ==
    /\ open
    /\ lock = "free"
    /\ FileLen > 0
    /\ FileLen % PageSize = 0
    /\ file_version # DATABASE_VERSION

\* C18: the version check at open follows check_db_version.  Opening a
\* non-empty, page-aligned file whose version bytes differ from
\* DATABASE_VERSION fails with VersionMismatch{expected, actual} when
\* check_db_version is true and succeeds when it is false.
C18_VersionCheckFollowsConfig ==
    [][OpenOfOtherVersion
          => IF config.check_db_version
             THEN result' = VersionMismatch("open", DATABASE_VERSION, file_version)
             ELSE result' = Ok("open")]_vars

\* what a backend just constructed shows: the given size, no transaction, no
\* session
FreshBackend(size) ==
    /\ phase = "open"
    /\ db_size = size
    /\ Idle
    /\ DOMAIN state_map = {}

PersistedIds(store) == UNION {DOMAIN store[i] : i \in 1..Len(store)}

\* the image of page id in the last frame of the store that holds it
LastPersisted(store, id) ==
    LET last == CHOOSE i \in 1..Len(store) :
                   /\ id \in DOMAIN store[i]
                   /\ \A k \in (i + 1)..Len(store) : id \notin DOMAIN store[k]
    IN  Lz4Decode(store[last][id])[1][1]

Loaded == idb.loaded > 0

\* C20: replay at open of the IndexedDB backend.  Once loaded has fired,
\* read_page(id, None) returns the last persisted image of every persisted
\* page id; loaded fires only after the cursor has visited every frame, never
\* twice, and it does fire after every open.
C20_ReplayOnOpen ==
    /\ [](Loaded => \A id \in PersistedIds(idb.store) :
                        Memory_read_page_value(id, None)
                            = OkPage("read_page", LastPersisted(idb.store, id)))
    /\ [](Loaded => idb.frames = idb.store)
    /\ [](idb.loaded <= 1)
    /\ [](phase = "open" => <>Loaded)

(***************************************************************************)
(* The transaction state machine.                                          *)
(***************************************************************************)
ReadActive == transaction_type = Some("Read")

\* C21: the transaction state is Idle, Read or Write.  It becomes Write only
\* through start_transaction(Write) from Idle or through
\* upgrade_read_transaction_to_write from Read, and it returns to Idle only
\* through commit or rollback.  upgrade_read_transaction_to_write in Idle opens
\* no transaction; after an upgrade from Read the type is Write and write_page
\* succeeds.
C21_TransactionStateMachine ==
    /\ [](transaction_type \in {None, Some("Read"), Some("Write")})
    /\ [][/\ (~WriteActive /\ WriteActive')
               => \/ Idle /\ start_transaction("Write")
                  \/ ReadActive /\ upgrade_read_transaction_to_write
          /\ (~Idle /\ Idle') => (commit \/ rollback)
          /\ (Idle /\ upgrade_read_transaction_to_write) => Idle'
          /\ (ReadActive /\ upgrade_read_transaction_to_write) => WriteActive'
          /\ \A page \in RawPages :
                (WriteActive /\ write_page(page)) => result' = Ok("write_page")]_vars

(***************************************************************************)
(* Sessions and the state of the backend.                                  *)
(***************************************************************************)
\* all of the backend but the session table
BackendButSessions == <<backend, poisoned, memVars, fileVars>>

\* C22: session frame law.  new_session(S), any number of read_page(id, S) and
\* remove_session(S) leave the backend as it was: new_session adds the entry
\* of S and nothing else, a read of the session changes nothing at all, and
\* remove_session takes the entry of S away and nothing else; the committed
\* pages, db_size(), the active transaction with its pending writes, the other
\* sessions, the page cache and the journal stay the same throughout.
C22_SessionFrameLaw ==
    [][\A s \in SessionIds :
          /\ new_session(s)
               => /\ UNCHANGED BackendButSessions
                  /\ \A o \in DOMAIN state_map \ {s} :
                        o \in DOMAIN state_map' /\ state_map'[o] = state_map[o]
                  /\ DOMAIN state_map' = DOMAIN state_map \cup {s}
          /\ \A id \in PageIds : read_page(id, Some(s)) => UNCHANGED progVars
          /\ remove_session(s)
               => /\ UNCHANGED BackendButSessions
                  /\ state_map' = Remove(state_map, s)]_vars

(***************************************************************************)
(* When commit checkpoints.                                                *)
(***************************************************************************)
\* the journal is truncated and the main file holds every committed frame of j
JournalCheckpointed(j) ==
    /\ JournalManager_len(journal_manager') = 0
    /\ DOMAIN journal_manager'.offset_map = {}
    /\ \A id \in DOMAIN j.offset_map :
          /\ Len(file') > id
          /\ file'[id + 1] = j.frames[j.offset_map[id]].data

\* the frames of the journal and the main file are as before
JournalUntouched ==
    /\ journal_manager'.frames = journal_manager.frames
    /\ file' = file

\* C23: the commit of the file backend runs the checkpoint exactly when, the
\* commit marker written, the journal holds at least journal_full_size and no
\* session is alive: then the journal is truncated and the main file holds the
\* committed frames; otherwise the journal's frames and the main file are
\* left as they are.  A commit that fails changes nothing.
C23_CheckpointAtCommit ==
    [][(backend = "file" /\ commit)
         => LET marked == JournalManager_commit(journal_manager)
            IN  IF result'.status # "Ok"
                THEN UNCHANGED progVars
                ELSE IF JournalManager_len(marked.j) >= JournalFullSize
                        /\ DOMAIN state_map = {}
                THEN JournalCheckpointed(marked.j)
                ELSE JournalUntouched /\ journal_manager' = marked.j]_vars

\* a commit on a full journal has just checkpointed it, every session gone
C23_Witness ==
    /\ backend = "file"
    /\ result = Ok("commit")
    /\ nWrites >= JournalFullSize
    /\ JournalManager_len(journal_manager) = 0
    /\ DOMAIN state_map = {}
    /\ \E id \in PageIds : Len(file) > id /\ file[id + 1] \notin {0, HeaderImage}

(***************************************************************************)
(* The store frame of a commit.                                            *)
(***************************************************************************)
\* C24: commit of the IndexedDB backend.  A successful commit advances the
\* in-memory snapshot and appends exactly one store frame; its page ids are
\* the ids written in the committed transaction, each once, and the bytes
\* stored for an id are the encoding of the last image written for it.  A
\* commit that fails for want of a transaction appends no frame.
C24_StoreFrameOfCommit ==
    [][indexeddb_commit
         => IF result'.status # "Ok"
            THEN idb'.store = idb.store
            ELSE /\ \A id \in DOMAIN h_written :
                       read_page_value(id, None)' = PageRead(h_written[id])
                 /\ Len(idb'.store) = Len(idb.store) + 1
                 /\ SubSeq(idb'.store, 1, Len(idb.store)) = idb.store
                 /\ LET frame == idb'.store[Len(idb'.store)]
                    IN  /\ DOMAIN frame = DOMAIN h_written
                        /\ \A id \in DOMAIN h_written :
                              frame[id] = Lz4Frame(h_written[id])]_vars

(***************************************************************************)
(* The size of the memory backend under write_page.                        *)
(***************************************************************************)
Max(a, b) == IF a >= b THEN a ELSE b

\* the size of the last committed snapshot of the memory backend
Memory_committed_db_size == snapshot.db_file_size

\* C25: in the memory backend a successful write_page(p, None) sets the size of
\* the transaction to max(previous size, (p.id + 1) * page_size): db_size()
\* grows when the page extends the file and never shrinks.  The committed size
\* is not touched by write_page; it changes only in commit, which makes the
\* size of the transaction the committed one.
C25_WritePageGrowsDbSize ==
    [][backend = "memory"
         => /\ \A page \in RawPages :
                  (write_page(page) /\ result'.status = "Ok")
                    => /\ db_size' = Max(db_size, (page.page_id + 1) * PageSize)
                       /\ Memory_committed_db_size' = Memory_committed_db_size
            /\ (Memory_committed_db_size' # Memory_committed_db_size) => commit
            /\ (commit /\ result'.status = "Ok")
                 => Memory_committed_db_size' = db_size /\ db_size' = db_size]_vars

\* write_page has just grown the size of the transaction beyond the committed one
C25_Witness ==
    /\ backend = "memory"
    /\ result = Ok("write_page")
    /\ WriteActive
    /\ MaxPageId \in DOMAIN h_written
    /\ db_size = (MaxPageId + 1) * PageSize
    /\ Memory_committed_db_size < db_size

(***************************************************************************)
(* Coherence of the page cache of the file backend.                        *)
(***************************************************************************)
\* what read_page(page_id, None) returns when the cache holds nothing
File_read_page_main_uncached(page_id) ==
    File_read_page_main_of(PageCache_new_default, journal_manager, file, page_id)

\* C26: page-cache coherence of the file backend.  Every page in the cache is
\* the image that the main view of the journal, and failing that the main
\* file, returns for its id in the current view; so read_page(id, None)
\* returns the same with the cache as without it, whatever the cache has
\* evicted.
C26_PageCacheCoherence ==
    backend = "file"
      => /\ \A id \in DOMAIN page_cache :
               File_read_page_main_uncached(id) = OkPage("read_page", page_cache[id])
         /\ \A id \in PageIds :
               File_read_page_main(id) = File_read_page_main_uncached(id)

\* the cache holds a page written in the open write transaction, which the main
\* file does not hold, after another page was written
C26_Witness ==
    /\ backend = "file"
    /\ phase = "open"
    /\ WriteActive
    /\ Cardinality(DOMAIN h_written) > CacheCapacity
    /\ \E id \in DOMAIN page_cache :
          /\ id \in DOMAIN h_written
          /\ File_read_page_from_main_file(id) # page_cache[id]

(***************************************************************************)
(* Sessions created under a write transaction.                             *)
(***************************************************************************)
\* the write transaction has written a page or set a size that is not committed
PendingWrites ==
    /\ WriteActive
    /\ (DOMAIN h_written # {} \/ db_size # h_view.db_size)

\* C27: a session created while a write transaction with pending write_page or
\* set_db_size calls is active is pinned to the last committed state: right
\* after new_session its reads return the committed images and its size is the
\* committed db_size, none of the pending writes; and every live session keeps
\* reading what was committed at its creation, whether the transaction
\* commits or rolls back.
C27_SessionUnderWriteTransaction ==
    /\ [][\A s \in SessionIds :
             (new_session(s) /\ PendingWrites)
               => /\ result' = Ok("new_session")
                  /\ SessionView(s)' = h_view.pages
                  /\ session_db_size(s)' = h_view.db_size]_vars
    /\ [](\A s \in DOMAIN state_map :
             /\ SessionView(s) = h_birth[s].pages
             /\ session_db_size(s) = h_birth[s].db_size)

\* a session was just created under a write transaction and does not read the
\* page that the transaction has written
C27_Witness ==
    /\ result = Ok("new_session")
    /\ PendingWrites
    /\ \E s \in DOMAIN state_map : \E id \in DOMAIN h_written :
          /\ View.pages[id] = PageRead(h_written[id])
          /\ SessionView(s)[id] # PageRead(h_written[id])
          /\ SessionView(s)[id] = h_view.pages[id]
          /\ session_db_size(s) = h_view.db_size

(***************************************************************************)
(* Who writes the main file.                                               *)
(***************************************************************************)
\* C28: the main database file is written only by the process that holds the
\* exclusive lock on it: a step of this backend that changes the main file is
\* taken while this backend holds the lock (open takes the lock and then
\* initialises the file), a step of another opener that changes it gives that
\* opener the lock; in particular the final checkpoint of drop writes no page
\* while the lock is free for, or held by, another opener.
C28_WriterHoldsLock ==
    [][/\ (file' # file /\ ~other_open)
            => \/ lock = "self"
               \/ open /\ lock = "free" /\ lock' = "self"
       /\ (file' # file /\ other_open) => (lock = "free" /\ lock' = "other")
       /\ (drop_checkpoint /\ lock # "self") => file' = file]_vars

(***************************************************************************)
(* The pending writes of the memory backend.                               *)
(***************************************************************************)
\* the pages the active transaction has written: the overlay of its draft
Memory_pending_pages ==
    IF transaction = None THEN EmptyMap ELSE transaction[1].draft.overlay

\* C29: memory backend, under an active write transaction: a step other than
\* rollback and commit keeps every pending page (write_page replaces the image
\* of the page it writes, nothing else); upgrade_read_transaction_to_write
\* leaves the write transaction and its pending pages as they are; and commit
\* publishes every pending page in the snapshot.
C29_PendingWritesKept ==
    [][(backend = "memory" /\ WriteActive)
         => /\ (~rollback /\ ~commit)
                 => \A id \in DOMAIN Memory_pending_pages :
                       /\ id \in DOMAIN Memory_pending_pages'
                       /\ \/ Memory_pending_pages'[id] = Memory_pending_pages[id]
                          \/ \E page \in RawPages :
                                /\ page.page_id = id
                                /\ write_page(page)
                                /\ Memory_pending_pages'[id] = page.data
            /\ upgrade_read_transaction_to_write
                 => /\ WriteActive'
                    /\ Memory_pending_pages' = Memory_pending_pages
            /\ commit
                 => /\ result'.status = "Ok"
                    /\ \A id \in DOMAIN Memory_pending_pages :
                          DbSnapshot_read_page(snapshot', id) = Some(Memory_pending_pages[id])]_vars

====
